---------------------------- MODULE Spec2Model ----------------------------
(***************************************************************************)
(* RC-8: a CHIP-8 virtual machine.  The module models                       *)
(*   - the backend (src/backend): memory, registers, stack, timers and the *)
(*     instruction interpreter Backend::tick, with the display buffer and  *)
(*     the keyboard state it works on;                                      *)
(*   - the frontend (src/frontend): the worker thread Frontend::run and    *)
(*     the FrontendHandle that starts, suspends, resumes and stops it.     *)
(* Spec drives the backend through its public calls (load, reset, tick);   *)
(* SchedSpec runs it on the worker thread under the handle's control.      *)
(***************************************************************************)
EXTENDS Integers, Sequences, FiniteSets, TLC

(***************************************************************************)
(* Program constants (src/backend/mod.rs, src/frontend)                     *)
(***************************************************************************)
DISPLAY_BUFFER_HEIGHT == 32
DISPLAY_BUFFER_WIDTH == 64
CHARACTER_SIZE == 5
KEY_COUNT == 16
FONT_SIZE == CHARACTER_SIZE * KEY_COUNT
MEMORY_PADDING == 512
MEMORY_SIZE == 4096
REGISTER_COUNT == 16
STACK_SIZE == 12
INSTRUCTIONS_PER_TICK == 18
MESSAGE_BUFFER_SIZE == 8
U8_MAX == 255
INSTRUCTION_SIZE == 2

(***************************************************************************)
(* Bounds of the model                                                      *)
(***************************************************************************)
\* tick calls made on the backend after construction
MaxTicks == 3

Byte == 0 .. U8_MAX

\* Option<T>: None is the empty sequence, Some(v) the one-element sequence
None == << >>
Some(v) == << v >>

(***************************************************************************)
(* Instruction (src/backend/instruction.rs): a view of a 16-bit word        *)
(***************************************************************************)
InstructionNew(hi, lo) == hi * 256 + lo
operator_code(w) == w \div 4096
operand_n(w) == w % 16
operand_nn(w) == w % 256
operand_nnn(w) == w % 4096
operand_x(w) == (w % 4096) \div 256
operand_y(w) == (w % 256) \div 16

(***************************************************************************)
(* u8 arithmetic                                                            *)
(***************************************************************************)
RECURSIVE BitOp(_, _, _, _)
\* bitwise combination of the low k bits of a and b; f is "or", "and", "xor"
BitOp(f, a, b, k) ==
    IF k = 0 THEN 0
    ELSE LET x == a % 2
             y == b % 2
             r == CASE f = "or"  -> IF x + y > 0 THEN 1 ELSE 0
                    [] f = "and" -> IF x + y = 2 THEN 1 ELSE 0
                    [] f = "xor" -> (x + y) % 2
         IN r + 2 * BitOp(f, a \div 2, b \div 2, k - 1)

wrapping_add(a, b) == (a + b) % 256
wrapping_sub(a, b) == (a - b + 256) % 256
\* saturating_sub that wraps below zero
saturating_sub_Wrapping(a, b) == (a - b + 256) % 256
saturating_sub(a, b) == IF a >= b THEN a - b ELSE 0
\* the bits of a byte, most significant first (into_bitarray::<Msb0>)
BitMsb0(byte, x) == (byte \div (2 ^ (7 - x))) % 2 = 1

(***************************************************************************)
(* KeyboardState (src/backend/interfaces.rs)                                *)
(***************************************************************************)
KeyboardNew == [k \in 0 .. KEY_COUNT - 1 |-> FALSE]
hold(kb, key) == [kb EXCEPT ![key] = TRUE]
release(kb, key) == [kb EXCEPT ![key] = FALSE]
pressed(kb, key) == IF key \in DOMAIN kb THEN kb[key] ELSE FALSE
pressed_key(kb) ==
    IF \E k \in DOMAIN kb : kb[k]
    THEN Some(CHOOSE k \in DOMAIN kb : kb[k] /\ \A j \in DOMAIN kb : kb[j] => k <= j)
    ELSE None

(***************************************************************************)
(* DisplayBuffer (src/backend/interfaces.rs).  buffer is the set of the    *)
(* coordinates <<x, y>> of the pixels that are on; changed is the set of   *)
(* coordinates that carry a timestamp.                                      *)
(***************************************************************************)
DisplayNew(options) ==
    [buffer |-> {}, changed |-> {}, dirty |-> FALSE, options |-> options]

clear(d) == [d EXCEPT !.buffer = {}, !.dirty = TRUE]

\* DrawBit that switches the pixel on instead of flipping it
DrawBit_SetsPixel(acc, cx, cy, bit) ==
    IF bit
    THEN [d |-> [acc.d EXCEPT !.buffer = @ \cup {<<cx, cy>>}],
          collided |-> acc.collided \/ <<cx, cy>> \in acc.d.buffer]
    ELSE acc

\* DrawBit that reports a collision for the first bit of a row only
DrawBit_CollisionAtOrigin(acc, cx, cy, bit) ==
    IF bit
    THEN LET on == <<cx, cy>> \in acc.d.buffer
         IN [d |-> [acc.d EXCEPT
                      !.buffer = IF on THEN @ \ {<<cx, cy>>} ELSE @ \cup {<<cx, cy>>}],
             collided |-> acc.collided \/ (on /\ cx % 4 = 0)]
    ELSE acc

\* one sprite bit at column offset x of the row drawn at line cy
\* acc = [d |-> display, collided |-> BOOLEAN]
DrawBit(acc, cx, cy, bit) ==
    IF bit
    THEN LET on == <<cx, cy>> \in acc.d.buffer
         IN [d |-> [acc.d EXCEPT
                      !.buffer = IF on THEN @ \ {<<cx, cy>>} ELSE @ \cup {<<cx, cy>>},
                      !.changed = IF on /\ acc.d.options.track_changes
                                  THEN @ \cup {<<cx, cy>>} ELSE @],
             collided |-> acc.collided \/ on]
    ELSE acc

RECURSIVE DrawRow_NoClip(_, _, _, _, _)
\* the inner loop of draw without the break at the right edge
DrawRow_NoClip(acc, x0, cy, byte, x) ==
    IF x >= 8 THEN acc
    ELSE LET cx == (x0 + x) % DISPLAY_BUFFER_WIDTH
         IN DrawRow_NoClip(DrawBit(acc, cx, cy, BitMsb0(byte, x)), x0, cy, byte, x + 1)

RECURSIVE DrawRow(_, _, _, _, _)
\* the inner loop of draw: bits x, x+1, .. of one sprite byte
DrawRow(acc, x0, cy, byte, x) ==
    IF x >= 8 THEN acc
    ELSE LET cx == (x0 + x) % DISPLAY_BUFFER_WIDTH
             a1 == DrawBit(acc, cx, cy, BitMsb0(byte, x))
         IN IF ~acc.d.options.wrap_sprites /\ cx = DISPLAY_BUFFER_WIDTH - 1
            THEN a1
            ELSE DrawRow(a1, x0, cy, byte, x + 1)

RECURSIVE DrawRows(_, _, _, _, _)
\* the outer loop of draw: sprite bytes y, y+1, ..
DrawRows(acc, x0, y0, sprite, y) ==
    IF y > Len(sprite) THEN acc
    ELSE LET cy == (y0 + (y - 1)) % DISPLAY_BUFFER_HEIGHT
             a1 == DrawRow(acc, x0, cy, sprite[y], 0)
         IN IF ~acc.d.options.wrap_sprites /\ cy = DISPLAY_BUFFER_HEIGHT - 1
            THEN a1
            ELSE DrawRows(a1, x0, y0, sprite, y + 1)

\* DisplayBuffer::draw: [d |-> the buffer after the draw, collided |-> result]
draw(d, coordinates, sprite) ==
    LET x0 == coordinates[1] % DISPLAY_BUFFER_WIDTH
        y0 == coordinates[2] % DISPLAY_BUFFER_HEIGHT
        r == DrawRows([d |-> d, collided |-> FALSE], x0, y0, sprite, 1)
    IN [d |-> [r.d EXCEPT !.dirty = TRUE], collided |-> r.collided]


(***************************************************************************)
(* Backend (src/backend/mod.rs)                                             *)
(***************************************************************************)
\* defaults::FONT, the 80 bytes of the sixteen 5-byte hexadecimal characters
DefaultFont ==
    << 240, 144, 144, 144, 240,   32,  96,  32,  32, 112,
       240,  16, 240, 128, 240,  240,  16, 240,  16, 240,
       144, 144, 240,  16,  16,  240, 128, 240,  16, 240,
       240, 128, 240, 144, 240,  240,  16,  32,  64,  64,
       240, 144, 240, 144, 240,  240, 144, 240,  16, 240,
       240, 144, 240, 144, 144,  224, 144, 224, 144, 224,
       240, 128, 128, 128, 240,  224, 144, 144, 144, 224,
       240, 128, 240, 128, 240,  240, 128, 240, 128, 128 >>

\* memory.fill(0)
ZeroMemory == [a \in 0 .. MEMORY_SIZE - 1 |-> 0]

BackendNew ==
    [index |-> MEMORY_PADDING,
     loaded |-> FALSE,
     memory |-> ZeroMemory,
     registers |-> [address |-> 0, general |-> [r \in 0 .. REGISTER_COUNT - 1 |-> 0]],
     stack |-> << >>,
     timers |-> [delay |-> 0, sound |-> 0]]

\* BackendError {instruction, kind}
BackendError(instruction, kind) == [instruction |-> instruction, kind |-> kind]

\* memory[start .. start + bytes.len()].copy_from_slice(bytes)
copy_from_slice(memory, start, bytes) ==
    [a \in start .. start + Len(bytes) - 1 |-> bytes[a - start + 1]] @@ memory

\* load that accepts programs of odd length
load_AnyParity(b, font, program) ==
    IF Len(program) > MEMORY_SIZE - MEMORY_PADDING
    THEN [b |-> b, result |-> [ok |-> FALSE, err |-> BackendError(None, "ProgramInvalid")]]
    ELSE LET f == IF font = None THEN DefaultFont ELSE font[1]
             m0 == IF b.loaded THEN ZeroMemory ELSE b.memory
             m1 == copy_from_slice(copy_from_slice(m0, 0, f), MEMORY_PADDING, program)
         IN [b |-> [b EXCEPT !.memory = m1, !.loaded = TRUE],
             result |-> [ok |-> TRUE, err |-> None]]

\* load that does not zero the memory of a loaded backend
load_NoFill(b, font, program) ==
    IF Len(program) > MEMORY_SIZE - MEMORY_PADDING \/ Len(program) % 2 # 0
    THEN [b |-> b, result |-> [ok |-> FALSE, err |-> BackendError(None, "ProgramInvalid")]]
    ELSE LET f == IF font = None THEN DefaultFont ELSE font[1]
             m1 == copy_from_slice(copy_from_slice(b.memory, 0, f), MEMORY_PADDING, program)
         IN [b |-> [b EXCEPT !.memory = m1, !.loaded = TRUE],
             result |-> [ok |-> TRUE, err |-> None]]

\* Backend::load: [b |-> the backend after the call, result |-> Ok(()) or Err]
load(b, font, program) ==
    IF Len(program) > MEMORY_SIZE - MEMORY_PADDING \/ Len(program) % 2 # 0
    THEN [b |-> b, result |-> [ok |-> FALSE, err |-> BackendError(None, "ProgramInvalid")]]
    ELSE LET f == IF font = None THEN DefaultFont ELSE font[1]
             m0 == IF b.loaded THEN ZeroMemory ELSE b.memory
             m1 == copy_from_slice(copy_from_slice(m0, 0, f), MEMORY_PADDING, program)
         IN [b |-> [b EXCEPT !.memory = m1, !.loaded = TRUE],
             result |-> [ok |-> TRUE, err |-> None]]

\* Backend::reset (the sound timer is not assigned: line 92 repeats line 91)
reset(b) ==
    [b EXCEPT !.index = MEMORY_PADDING,
              !.registers = [address |-> 0,
                             general |-> [r \in 0 .. REGISTER_COUNT - 1 |-> 0]],
              !.stack = << >>,
              !.timers.delay = 0]

(***************************************************************************)
(* Backend::tick.  The state of one call is a record m:                    *)
(*   b, d        the backend and the display buffer                        *)
(*   last_index  the local last_index                                      *)
(*   ctl         "next" (go on with the loop), "break", "err" (return Err),*)
(*               "panic" (an index out of range: the thread unwinds)       *)
(*   err         the BackendError returned when ctl = "err"                *)
(*   at_fetch    whether that error was raised by the fetch                *)
(*   executed    the <<address, word>> of the instructions fetched so far  *)
(* Every arm of the match is an operator from m and the instruction word   *)
(* to the set of states the arm can leave (one, but for Cxnn).             *)
(***************************************************************************)
\* the values rand::random::<u8>() is taken from
RandomBytes == {0, 1, 128, 255}

V(m, r) == m.b.registers.general[r]
SetV(m, r, v) == [m EXCEPT !.b.registers.general[r] = v]
Fail(m, instruction, kind) ==
    [m EXCEPT !.ctl = "err", !.err = BackendError(instruction, kind)]
\* the instruction fetched last in this call: <<address, word>>
Fetched(m) == m.executed[Len(m.executed)]

\* 00E0, 00EE, 0nnn
Op0(m, w) ==
    CASE operand_nnn(w) = 224 -> [m EXCEPT !.d = clear(m.d)]
      [] operand_nnn(w) = 238 ->
            IF m.b.stack = << >>
            THEN Fail(m, Some(<<m.last_index, Some(w)>>), "StackUnderflow")
            ELSE [m EXCEPT !.b.index = m.b.stack[Len(m.b.stack)],
                           !.b.stack = SubSeq(m.b.stack, 1, Len(m.b.stack) - 1)]
      [] OTHER -> m

\* OpJumpCall with the capacity test off by one
OpJumpCall_OffByOne(m, w) ==
    IF operator_code(w) = 2 /\ Len(m.b.stack) > STACK_SIZE
    THEN Fail(m, Some(<<m.last_index, Some(w)>>), "StackOverflow")
    ELSE [m EXCEPT !.b.stack = IF operator_code(w) = 2
                                THEN Append(@, m.b.index % 65536) ELSE @,
                   !.b.index = operand_nnn(w)]

\* OpJumpCall that pushes the address of the call itself
OpJumpCall_PushesCallAddress(m, w) ==
    IF operator_code(w) = 2 /\ Len(m.b.stack) = STACK_SIZE
    THEN Fail(m, Some(<<m.last_index, Some(w)>>), "StackOverflow")
    ELSE [m EXCEPT !.b.stack = IF operator_code(w) = 2
                                THEN Append(@, m.last_index % 65536) ELSE @,
                   !.b.index = operand_nnn(w)]

\* 1nnn, 2nnn
OpJumpCall(m, w) ==
    IF operator_code(w) = 2 /\ Len(m.b.stack) = STACK_SIZE
    THEN Fail(m, Some(<<m.last_index, Some(w)>>), "StackOverflow")
    ELSE [m EXCEPT !.b.stack = IF operator_code(w) = 2
                                THEN Append(@, m.b.index % 65536) ELSE @,
                   !.b.index = operand_nnn(w)]

\* OpSkip that advances on every skip instruction, whatever its condition
OpSkip_Always(m, w) == [m EXCEPT !.b.index = @ + INSTRUCTION_SIZE]

\* 3xnn, 4xnn, 5xy_, 9xy_
OpSkip(m, w) ==
    LET opcode == operator_code(w)
        vx == V(m, operand_x(w))
        vy == V(m, operand_y(w))
        taken == \/ opcode = 3 /\ vx = operand_nn(w)
                 \/ opcode = 4 /\ vx # operand_nn(w)
                 \/ opcode = 5 /\ vx = vy
                 \/ opcode = 9 /\ vx # vy
    IN IF taken THEN [m EXCEPT !.b.index = @ + INSTRUCTION_SIZE] ELSE m

\* 6xnn
OpLoadImm(m, w) == SetV(m, operand_x(w), operand_nn(w))

\* 7xnn
OpAddImm(m, w) == SetV(m, operand_x(w), wrapping_add(V(m, operand_x(w)), operand_nn(w)))

\* 8xy5 and 8xy7: VF is written first, Vx (which may be VF) last
OpSub(m, w) ==
    LET x == operand_x(w)
        y == operand_y(w)
        minuend == IF operand_n(w) = 5 THEN V(m, x) ELSE V(m, y)
        subtrahend == IF operand_n(w) = 5 THEN V(m, y) ELSE V(m, x)
        result == wrapping_sub(minuend, subtrahend)
        m1 == SetV(m, 15, IF minuend > subtrahend THEN 1 ELSE 0)
    IN SetV(m1, x, result)

\* 8xy6 and 8xyE: VF is written first, Vx (which may be VF) last
OpShift(m, w) ==
    LET x == operand_x(w)
        result == IF operand_n(w) = 6 THEN V(m, x) \div 2 ELSE (V(m, x) * 2) % 256
        flag == IF operand_n(w) = 6 THEN V(m, x) % 2 ELSE V(m, x) \div 128
        m1 == SetV(m, 15, flag)
    IN SetV(m1, x, result)

\* 8xy4: VF is written first, Vx (which may be VF) last
OpAddCarry(m, w) ==
    LET x == operand_x(w)
        result == V(m, x) + V(m, operand_y(w))
        m1 == SetV(m, 15, IF result > U8_MAX THEN 1 ELSE 0)
    IN SetV(m1, x, result % 256)

\* 8xyN
OpAlu(m, w) ==
    LET x == operand_x(w)
        y == operand_y(w)
        n == operand_n(w)
    IN CASE n = 0 -> SetV(m, x, V(m, y))
         [] n = 1 -> SetV(m, x, BitOp("or", V(m, x), V(m, y), 8))
         [] n = 2 -> SetV(m, x, BitOp("and", V(m, x), V(m, y), 8))
         [] n = 3 -> SetV(m, x, BitOp("xor", V(m, x), V(m, y), 8))
         [] n = 4 -> OpAddCarry(m, w)
         [] n \in {5, 7} -> OpSub(m, w)
         [] n \in {6, 14} -> OpShift(m, w)
         [] OTHER -> Fail(m, Some(<<m.last_index, Some(w)>>), "UnrecognizedInstruction")

\* Annn
OpSetAddress(m, w) == [m EXCEPT !.b.registers.address = operand_nnn(w)]

\* Bnnn
OpJumpV0(m, w) == [m EXCEPT !.b.index = V(m, 0) + operand_nnn(w)]

\* Cxnn: one state for each random byte
OpRandom(m, w) ==
    { SetV(m, operand_x(w), BitOp("and", r, operand_nn(w), 8)) : r \in RandomBytes }

\* Dxyn: the slice memory[address .. address + n] panics past the end of memory
OpDraw(m, w) ==
    LET address == m.b.registers.address
        n == operand_n(w)
    IN IF address + n > MEMORY_SIZE
       THEN [m EXCEPT !.ctl = "panic"]
       ELSE LET sprite == [i \in 1 .. n |-> m.b.memory[address + i - 1]]
                r == draw(m.d, <<V(m, operand_x(w)), V(m, operand_y(w))>>, sprite)
            IN [SetV(m, 15, IF r.collided THEN 1 ELSE 0) EXCEPT !.d = r.d]

\* OpKey that goes on with the batch
OpKey_NoBreak(m, w, kb) ==
    LET nn == operand_nn(w)
        down == pressed(kb, V(m, operand_x(w)))
    IN CASE nn = 158 -> [m EXCEPT !.b.index = IF down THEN @ + INSTRUCTION_SIZE ELSE @]
         [] nn = 161 -> [m EXCEPT !.b.index = IF ~down THEN @ + INSTRUCTION_SIZE ELSE @]
         [] OTHER -> Fail(m, Some(<<m.last_index, Some(w)>>), "UnrecognizedInstruction")

\* Ex9E, ExA1
OpKey(m, w, kb) ==
    LET nn == operand_nn(w)
        down == pressed(kb, V(m, operand_x(w)))
    IN CASE nn = 158 -> [m EXCEPT !.b.index = IF down THEN @ + INSTRUCTION_SIZE ELSE @,
                                  !.ctl = "break"]
         [] nn = 161 -> [m EXCEPT !.b.index = IF ~down THEN @ + INSTRUCTION_SIZE ELSE @,
                                  !.ctl = "break"]
         [] OTHER -> Fail(m, Some(<<m.last_index, Some(w)>>), "UnrecognizedInstruction")

\* Fx0A: the index is set back to the instruction whether a key is pressed or not
OpWaitKey(m, w, kb) ==
    LET key == pressed_key(kb)
        m1 == IF key # None THEN SetV(m, operand_x(w), key[1]) ELSE m
    IN [m1 EXCEPT !.b.index = m.last_index, !.ctl = "break"]

\* Fx33 with the tens digit taken from the number itself, not from number / 10
OpBcd_TensOfNumber(m, w) ==
    LET address == m.b.registers.address
        number == V(m, operand_x(w))
    IN IF address + 2 >= MEMORY_SIZE
       THEN Fail(m, Some(<<m.b.index, None>>), "MemoryOverflow")
       ELSE [m EXCEPT !.b.memory[address] = (number \div 10) \div 10,
                      !.b.memory[address + 1] = number % 10,
                      !.b.memory[address + 2] = number % 10]

\* Fx33: the error carries self.index (already advanced) and no instruction
OpBcd(m, w) ==
    LET address == m.b.registers.address
        number == V(m, operand_x(w))
    IN IF address + 2 >= MEMORY_SIZE
       THEN Fail(m, Some(<<m.b.index, None>>), "MemoryOverflow")
       ELSE [m EXCEPT !.b.memory[address] = (number \div 10) \div 10,
                      !.b.memory[address + 1] = (number \div 10) % 10,
                      !.b.memory[address + 2] = number % 10]

\* Fx55 with the range 0..x in place of 0..x+1
OpDump_Exclusive(m, w) ==
    LET address == m.b.registers.address
        x == operand_x(w)
    IN IF address + x >= MEMORY_SIZE
       THEN Fail(m, Some(<<m.b.index, None>>), "MemoryOverflow")
       ELSE [m EXCEPT !.b.memory = [a \in address .. address + x - 1 |->
                                      V(m, a - address)] @@ @]

\* Fx55
OpDump(m, w) ==
    LET address == m.b.registers.address
        x == operand_x(w)
    IN IF address + x >= MEMORY_SIZE
       THEN Fail(m, Some(<<m.b.index, None>>), "MemoryOverflow")
       ELSE [m EXCEPT !.b.memory = [a \in address .. address + x |->
                                      V(m, a - address)] @@ @]

\* Fx65
OpRestore(m, w) ==
    LET address == m.b.registers.address
        x == operand_x(w)
    IN IF address + x >= MEMORY_SIZE
       THEN Fail(m, Some(<<m.b.index, None>>), "MemoryOverflow")
       ELSE [m EXCEPT !.b.registers.general =
                        [r \in 0 .. REGISTER_COUNT - 1 |->
                           IF r <= x THEN m.b.memory[address + r] ELSE @[r]]]

\* Fx29 that stores the address before it tests the character code
OpCharacter_StoresFirst(m, w) ==
    LET character_code == V(m, operand_x(w))
        m1 == [m EXCEPT !.b.registers.address = character_code * CHARACTER_SIZE]
    IN IF character_code >= KEY_COUNT
       THEN Fail(m1, Some(<<m.last_index, Some(w)>>), "UnrecognizedSprite")
       ELSE m1

\* Fx29
OpCharacter(m, w) ==
    LET character_code == V(m, operand_x(w))
    IN IF character_code >= KEY_COUNT
       THEN Fail(m, Some(<<m.last_index, Some(w)>>), "UnrecognizedSprite")
       ELSE [m EXCEPT !.b.registers.address = character_code * CHARACTER_SIZE]

\* Fxnn with the sum of Fx1E left unmasked
OpF_AddressUnmasked(m, w, kb) ==
    LET x == operand_x(w)
        nn == operand_nn(w)
    IN CASE nn = 7 -> SetV(m, x, m.b.timers.delay)
         [] nn = 10 -> OpWaitKey(m, w, kb)
         [] nn = 21 -> [m EXCEPT !.b.timers.delay = V(m, x)]
         [] nn = 24 -> [m EXCEPT !.b.timers.sound = V(m, x)]
         [] nn = 30 -> [m EXCEPT !.b.registers.address = @ + V(m, x)]
         [] nn = 41 -> OpCharacter(m, w)
         [] nn = 51 -> OpBcd(m, w)
         [] nn = 85 -> OpDump(m, w)
         [] nn = 101 -> OpRestore(m, w)
         [] OTHER -> Fail(m, Some(<<m.last_index, Some(w)>>), "UnrecognizedInstruction")

\* Fxnn
OpF(m, w, kb) ==
    LET x == operand_x(w)
        nn == operand_nn(w)
    IN CASE nn = 7 -> SetV(m, x, m.b.timers.delay)
         [] nn = 10 -> OpWaitKey(m, w, kb)
         [] nn = 21 -> [m EXCEPT !.b.timers.delay = V(m, x)]
         [] nn = 24 -> [m EXCEPT !.b.timers.sound = V(m, x)]
         [] nn = 30 -> [m EXCEPT !.b.registers.address = (@ + V(m, x)) % 4096]
         [] nn = 41 -> OpCharacter(m, w)
         [] nn = 51 -> OpBcd(m, w)
         [] nn = 85 -> OpDump(m, w)
         [] nn = 101 -> OpRestore(m, w)
         [] OTHER -> Fail(m, Some(<<m.last_index, Some(w)>>), "UnrecognizedInstruction")

\* the match on the operator code
Execute(m, w, kb) ==
    LET opcode == operator_code(w)
    IN CASE opcode = 0 -> {Op0(m, w)}
         [] opcode \in {1, 2} -> {OpJumpCall(m, w)}
         [] opcode \in {3, 4, 5, 9} -> {OpSkip(m, w)}
         [] opcode = 6 -> {OpLoadImm(m, w)}
         [] opcode = 7 -> {OpAddImm(m, w)}
         [] opcode = 8 -> {OpAlu(m, w)}
         [] opcode = 10 -> {OpSetAddress(m, w)}
         [] opcode = 11 -> {OpJumpV0(m, w)}
         [] opcode = 12 -> OpRandom(m, w)
         [] opcode = 13 -> {OpDraw(m, w)}
         [] opcode = 14 -> {OpKey(m, w, kb)}
         [] opcode = 15 -> {OpF(m, w, kb)}

\* the fetch of one loop iteration: the bounds check, the read, the advance
Fetch(m) ==
    IF m.b.index + 1 >= MEMORY_SIZE
    THEN [Fail(m, Some(<<m.b.index, None>>), "MemoryOverflow") EXCEPT !.at_fetch = TRUE]
    ELSE [m EXCEPT !.last_index = m.b.index,
                   !.b.index = m.b.index + INSTRUCTION_SIZE,
                   !.executed = Append(@, <<m.b.index,
                        InstructionNew(m.b.memory[m.b.index], m.b.memory[m.b.index + 1])>>)]

\* one iteration of the for loop
Step(m, kb) ==
    LET f == Fetch(m)
    IN IF f.ctl = "err" THEN {f}
       ELSE Execute(f, Fetched(f)[2], kb)

RECURSIVE Run(_, _, _)
\* the for loop with k iterations left, from the set ms of states
Run(ms, kb, k) ==
    IF k = 0 \/ \A m \in ms : m.ctl # "next" THEN ms
    ELSE Run(UNION { IF m.ctl = "next" THEN Step(m, kb) ELSE {m} : m \in ms }, kb, k - 1)

\* the value a call returns: Ok((last_index, instruction read back from memory)),
\* Err(error), or no value when the call panicked
TickReturn(m) ==
    CASE m.ctl = "err" -> [kind |-> "Err", err |-> m.err, value |-> None]
      [] m.ctl = "panic" -> [kind |-> "Panic", err |-> None, value |-> None]
      [] OTHER -> [kind |-> "Ok", err |-> None,
                   value |-> Some(<<m.last_index,
                                InstructionNew(m.b.memory[m.last_index],
                                               m.b.memory[m.last_index + 1])>>)]

\* tick without the test of the loaded flag
tick_NoLoadedCheck(b, d, kb, n) ==
    LET b1 == [b EXCEPT !.timers.delay = saturating_sub(@, 1),
                        !.timers.sound = saturating_sub(@, 1)]
        m0 == [b |-> b1, d |-> d, last_index |-> b1.index, ctl |-> "next",
               err |-> None, at_fetch |-> FALSE, executed |-> << >>]
    IN { [b |-> m.b, d |-> m.d, executed |-> m.executed, at_fetch |-> m.at_fetch,
          ret |-> TickReturn(m)] :
           m \in Run({m0}, kb, n) }

\* Backend::tick(n, (display_buffer, keyboard_state)): the set of outcomes
\* [b, d, ret, executed]; executed lists the <<address, word>> fetched, in order
tick(b, d, kb, n) ==
    IF ~b.loaded
    THEN {[b |-> b, d |-> d, executed |-> << >>, at_fetch |-> FALSE,
           ret |-> [kind |-> "Err", err |-> BackendError(None, "ProgramNotLoaded"),
                    value |-> None]]}
    ELSE LET b1 == [b EXCEPT !.timers.delay = saturating_sub(@, 1),
                             !.timers.sound = saturating_sub(@, 1)]
             m0 == [b |-> b1, d |-> d, last_index |-> b1.index, ctl |-> "next",
                    err |-> None, at_fetch |-> FALSE, executed |-> << >>]
         IN { [b |-> m.b, d |-> m.d, executed |-> m.executed, at_fetch |-> m.at_fetch,
               ret |-> TickReturn(m)] :
                m \in Run({m0}, kb, n) }


(***************************************************************************)
(* The programs and the keys the model is run on                            *)
(***************************************************************************)
\* the instruction word with the nibbles a b c d
W(a, b, c, d) == a * 4096 + b * 256 + c * 16 + d

\* the bytes of a sequence of instruction words, big-endian
Bytes(ws) == [i \in 1 .. 2 * Len(ws) |->
                IF i % 2 = 1 THEN ws[(i + 1) \div 2] \div 256 ELSE ws[i \div 2] % 256]

\* the register pairs <<x, y>> the ALU programs are built on
RegPairs == {<<0, 1>>, <<1, 1>>, <<15, 1>>, <<1, 15>>}

\* Cx FF; Cy FF; 8xyN
AluPrograms ==
    { <<W(12, xy[1], 15, 15), W(12, xy[2], 15, 15), W(8, xy[1], xy[2], n)>> :
        xy \in RegPairs, n \in {4, 5, 6, 7, 14} }

\* Cx01; then 3x01, 4x01, 5xy0 or 9xy0 on the random Vx (0 or 1) and Vy = 0
SkipPrograms ==
    { <<W(12, 2, 0, 1), W(3, 2, 0, 1)>>, <<W(12, 2, 0, 1), W(4, 2, 0, 1)>>,
      <<W(12, 2, 0, 1), W(5, 2, 3, 0)>>, <<W(12, 2, 0, 1), W(9, 2, 3, 0)>> }

WordPrograms ==
    AluPrograms \cup SkipPrograms \cup
    { << >>,
      \* 1200: a jump to itself
      <<W(1, 2, 0, 0)>>,
      \* 2200: a call of itself
      <<W(2, 2, 0, 0)>>,
      \* 00EE on the empty stack
      <<W(0, 0, 14, 14)>>,
      \* 2204; 1200; 00EE: a call and its return, in a loop
      <<W(2, 2, 0, 4), W(1, 2, 0, 0), W(0, 0, 14, 14)>>,
      \* F30A; 7301; 1200: wait for a key, then count
      <<W(15, 3, 0, 10), W(7, 3, 0, 1), W(1, 2, 0, 0)>>,
      \* 6001; E09E; 6105; E1A1; 1200: the key skips
      <<W(6, 0, 0, 1), W(14, 0, 9, 14), W(6, 1, 0, 5), W(14, 1, 10, 1), W(1, 2, 0, 0)>>,
      \* 6003; F015; F018; F107; 1206: the timers
      <<W(6, 0, 0, 3), W(15, 0, 1, 5), W(15, 0, 1, 8), W(15, 1, 0, 7), W(1, 2, 0, 6)>>,
      \* AFFD; C0FF; F033 and AFFE; F033: BCD at the end of memory
      <<W(10, 15, 15, 13), W(12, 0, 15, 15), W(15, 0, 3, 3)>>,
      <<W(10, 15, 15, 14), W(15, 0, 3, 3)>>,
      \* 60CD; A300; F033: BCD of 205
      <<W(6, 0, 12, 13), W(10, 3, 0, 0), W(15, 0, 3, 3)>>,
      \* C0FF; 6107; 6209; 630B; 640D; A300; F355; 6000; 6100; 6200; 6300; 6400; F365
      <<W(12, 0, 15, 15), W(6, 1, 0, 7), W(6, 2, 0, 9), W(6, 3, 0, 11), W(6, 4, 0, 13),
        W(10, 3, 0, 0), W(15, 3, 5, 5), W(6, 0, 0, 0), W(6, 1, 0, 0), W(6, 2, 0, 0),
        W(6, 3, 0, 0), W(6, 4, 0, 0), W(15, 3, 6, 5)>>,
      \* AFFC; F355 and AFFD; F355 and AFFD; F365: dump and restore at the end of memory
      <<W(10, 15, 15, 12), W(15, 3, 5, 5)>>,
      <<W(10, 15, 15, 13), W(15, 3, 5, 5)>>,
      <<W(10, 15, 15, 13), W(15, 3, 6, 5)>>,
      \* A200; F365 and A200; FF65: the restore reads the program itself
      <<W(10, 2, 0, 0), W(15, 3, 6, 5)>>,
      <<W(10, 2, 0, 0), W(15, 15, 6, 5)>>,
      \* A202; F055: the dump overwrites the first byte of the dump instruction
      <<W(10, 2, 0, 2), W(15, 0, 5, 5)>>,
      \* A202; 6012; F055: the dump overwrites the second instruction
      <<W(10, 2, 0, 2), W(6, 0, 1, 2), W(15, 0, 5, 5)>>,
      \* A200; D005: the sprite is the program itself
      <<W(10, 2, 0, 0), W(13, 0, 0, 5)>>,
      \* 603E; 611F; A000; D015; D015; 00E0: a character at the corner, twice
      <<W(6, 0, 3, 14), W(6, 1, 1, 15), W(10, 0, 0, 0), W(13, 0, 1, 5), W(13, 0, 1, 5),
        W(0, 0, 14, 0)>>,
      \* AFFF; D001 and AFFF; D002: a sprite at the end of memory
      <<W(10, 15, 15, 15), W(13, 0, 0, 1)>>,
      <<W(10, 15, 15, 15), W(13, 0, 0, 2)>>,
      \* 1FFE, 1FFF and 60FF; BFFF: jumps to the end of memory and past it
      <<W(1, 15, 15, 14)>>,
      <<W(1, 15, 15, 15)>>,
      <<W(6, 0, 15, 15), W(11, 15, 15, 15)>>,
      \* words outside the instruction set
      <<W(8, 0, 0, 8)>>, <<W(14, 0, 0, 0)>>, <<W(15, 0, 15, 15)>>,
      <<W(6, 0, 0, 1), W(5, 0, 1, 1), W(9, 0, 1, 3)>>,
      \* C01F; F029; F01E: the character sprites
      <<W(12, 0, 1, 15), W(15, 0, 2, 9), W(15, 0, 1, 14)>>,
      \* 60FF; AFFF; F01E: the address register wraps
      <<W(6, 0, 15, 15), W(10, 15, 15, 15), W(15, 0, 1, 14)>>,
      \* 6005; 3005; 4005; 5010; 9010; 7001: the skips
      <<W(6, 0, 0, 5), W(3, 0, 0, 5), W(4, 0, 0, 5), W(4, 0, 0, 5), W(5, 0, 1, 0),
        W(9, 0, 1, 0), W(9, 0, 1, 0), W(7, 0, 0, 1)>>
    }

\* programs load rejects: odd lengths and one too long
InvalidPrograms ==
    { <<0>>, <<18, 0, 0>>, [i \in 1 .. MEMORY_SIZE - MEMORY_PADDING + 2 |-> 0] }

\* the longest program load accepts: a jump to itself, then zeros
LongestProgram == [i \in 1 .. MEMORY_SIZE - MEMORY_PADDING |-> IF i = 1 THEN 18 ELSE 0]

Programs == { Bytes(ws) : ws \in WordPrograms } \cup {LongestProgram} \cup InvalidPrograms

\* the programs a loaded backend is loaded with again
ReloadPrograms == { Bytes(<<W(1, 2, 0, 0)>>), <<0>> }

\* the fonts handed to load: none, and one of all ones
Fonts == { None, Some([i \in 1 .. FONT_SIZE |-> 255]) }

\* the keys the owning context holds and releases
KeyInputs == {1, 4}

\* whether a program holds a Dxyn instruction
Draws(program) ==
    \E i \in 1 .. Len(program) : i % 2 = 1 /\ program[i] \div 16 = 13

\* whether the loaded program holds an instruction that reads the keyboard
\* (Ex9E, ExA1, Fx0A) among its first words
ReadsKeyboard(b) ==
    /\ b.loaded
    /\ \E i \in 0 .. 7 :
          LET w == InstructionNew(b.memory[MEMORY_PADDING + 2 * i],
                                  b.memory[MEMORY_PADDING + 2 * i + 1])
          IN operator_code(w) = 14 \/ (operator_code(w) = 15 /\ operand_nn(w) = 10)

\* the instruction budgets tick is called with
TickBudgets == {1, INSTRUCTIONS_PER_TICK}

(***************************************************************************)
(* State                                                                    *)
(***************************************************************************)
VARIABLES
    backend,        \* the Backend
    display,        \* the DisplayBuffer
    keyboard,       \* the KeyboardState
    ret,            \* the last call made on the backend and what it returned
    nticks,         \* the number of tick calls made so far
    debug_mode,     \* Options.debug_mode
    frontend,       \* FrontendHandle.frontend: "Some" or "None"
    join_handle,    \* FrontendHandle.join_handle: "Some" or "None"
    receiver,       \* FrontendHandle.receiver: "Some" or "None"
    channel,        \* the messages queued in the sync_channel
    command,        \* the Command cell: "None", "Suspend", "Stop"
    keyboard_lock,  \* the keyboard mutex: "free", "worker", "poisoned"
    wpc,            \* where the worker thread is in Frontend::run
    opc             \* where the owning context is

engine == <<backend, display, keyboard, ret, nticks>>
scheduler == <<debug_mode, frontend, join_handle, receiver, channel, command,
               keyboard_lock, wpc, opc>>
vars == <<backend, display, keyboard, ret, nticks, debug_mode, frontend, join_handle,
          receiver, channel, command, keyboard_lock, wpc, opc>>

\* FrontendHandle::new: the frontend in its slot, no worker thread
HandleNew ==
    /\ frontend = "Some"
    /\ join_handle = "None"
    /\ receiver = "None"
    /\ channel = << >>
    /\ command = "None"
    /\ keyboard_lock = "free"
    /\ wpc = "none"
    /\ opc = "idle"

\* op is the call ("new", "load", "reset", "tick", "draw", "clear"); font and
\* program are the arguments of a load, n is the budget of a tick, coordinates
\* and sprite are the arguments of a draw
NoCall == [op |-> "new", kind |-> "Ok", err |-> None, value |-> None,
           executed |-> << >>, at_fetch |-> FALSE, n |-> 0,
           font |-> None, program |-> << >>,
           coordinates |-> <<0, 0>>, sprite |-> << >>]

\* what a tick call with budget n that ended as the outcome r leaves in ret
TickCall(r, n) ==
    [op |-> "tick", kind |-> r.ret.kind, err |-> r.ret.err, value |-> r.ret.value,
     executed |-> r.executed, at_fetch |-> r.at_fetch, n |-> n,
     font |-> None, program |-> << >>,
     coordinates |-> <<0, 0>>, sprite |-> << >>]

Init ==
    /\ backend = BackendNew
    /\ \E wrap \in BOOLEAN :
          display = DisplayNew([track_changes |-> FALSE, wrap_sprites |-> wrap])
    /\ keyboard = KeyboardNew
    /\ ret = NoCall
    /\ nticks = 0
    /\ debug_mode = FALSE
    /\ HandleNew

\* backend.load(font, program).  A font is handed over with the empty program,
\* sprites are wrapped under programs that draw, and a loaded backend is loaded
\* again after a tick with the full budget.
Load ==
    /\ backend.loaded => ret.op = "tick" /\ ret.n = INSTRUCTIONS_PER_TICK
    /\ \E font \in IF backend.loaded THEN {None} ELSE Fonts,
          program \in IF backend.loaded THEN ReloadPrograms ELSE Programs :
       /\ font # None => program = << >>
       /\ display.options.wrap_sprites /\ ~backend.loaded => Draws(program)
       /\ LET r == load(backend, font, program)
          IN /\ backend' = r.b
             /\ ret' = [NoCall EXCEPT !.op = "load",
                                      !.kind = IF r.result.ok THEN "Ok" ELSE "Err",
                                      !.err = r.result.err,
                                      !.font = font,
                                      !.program = program]
       /\ UNCHANGED <<display, keyboard, nticks, scheduler>>

\* backend.reset()
Reset ==
    /\ ret.op = "tick"
    /\ backend' = reset(backend)
    /\ ret' = [NoCall EXCEPT !.op = "reset"]
    /\ UNCHANGED <<display, keyboard, nticks, scheduler>>

\* backend.tick(n, (&mut display_buffer, &keyboard_state))
Tick ==
    /\ nticks < MaxTicks
    /\ \E n \in TickBudgets :
         \E r \in tick(backend, display, keyboard, n) :
            /\ backend' = r.b
            /\ display' = r.d
            /\ ret' = TickCall(r, n)
    /\ nticks' = nticks + 1
    /\ UNCHANGED <<keyboard, scheduler>>

\* keyboard_state.hold(key)
Hold ==
    /\ ReadsKeyboard(backend)
    /\ \E key \in KeyInputs : keyboard' = hold(keyboard, key)
    /\ UNCHANGED <<backend, display, ret, nticks, scheduler>>

\* keyboard_state.release(key)
Release ==
    /\ ReadsKeyboard(backend)
    /\ \E key \in KeyInputs : keyboard' = release(keyboard, key)
    /\ UNCHANGED <<backend, display, ret, nticks, scheduler>>

Next == Load \/ Reset \/ Tick \/ Hold \/ Release

Spec == Init /\ [][Next]_vars

(***************************************************************************)
(* The display buffer on its own: draw and clear called with arguments     *)
(* from small sets, in any order, under both settings of wrap_sprites.     *)
(***************************************************************************)
\* origins in the corner cases of draw: the first pixel, near both far edges,
\* and two that lie outside the buffer: <<124, 62>> is reduced to <<60, 30>> and
\* <<255, 255>> to the last pixel <<63, 31>>
DrawOrigins == {<<0, 0>>, <<60, 30>>, <<124, 62>>, <<255, 255>>}
\* sprites: all zero, one row 11100001, and the tallest sprite Dxyn can name,
\* its rows 11110000 and 00001111 in turn
TallSprite == [i \in 1 .. 15 |-> IF i % 2 = 1 THEN 240 ELSE 15]
DrawSprites == {<<0, 0>>, <<225>>, TallSprite}

DrawInit ==
    /\ backend = BackendNew
    /\ \E wrap \in BOOLEAN :
          display = DisplayNew([track_changes |-> FALSE, wrap_sprites |-> wrap])
    /\ keyboard = KeyboardNew
    /\ ret = NoCall
    /\ nticks = 0
    /\ debug_mode = FALSE
    /\ HandleNew

\* display_buffer.draw(coordinates, sprite)
DisplayDraw ==
    /\ \E coordinates \in DrawOrigins, sprite \in DrawSprites :
          LET r == draw(display, coordinates, sprite)
          IN /\ display' = r.d
             /\ ret' = [NoCall EXCEPT !.op = "draw", !.value = Some(r.collided),
                                      !.coordinates = coordinates, !.sprite = sprite]
    /\ UNCHANGED <<backend, keyboard, nticks, scheduler>>

\* display_buffer.clear()
DisplayClear ==
    /\ display' = clear(display)
    /\ ret' = [NoCall EXCEPT !.op = "clear"]
    /\ UNCHANGED <<backend, keyboard, nticks, scheduler>>

DrawNext == DisplayDraw \/ DisplayClear

DrawSpec == DrawInit /\ [][DrawNext]_vars


(***************************************************************************)
(* The frontend: FrontendHandle (src/frontend/handle.rs) in the owning     *)
(* context and Frontend::run (src/frontend/mod.rs) on the worker thread.   *)
(* wpc: "none" (no thread), "sink", "top", "wait" (blocked on the condition*)
(* variable), "lock_keyboard", "tick", "send_trace", "send_err",           *)
(* "set_suspend", "texture", "sleep", "exited" (run returned, the thread   *)
(* holds the frontend until it is joined), "panicked" (the thread unwound  *)
(* and dropped the frontend).                                              *)
(* opc: "idle", "stop_notify" and "stop_join" (inside stop), "panicked",    *)
(* and "start_panicked", "suspend_panicked", "resume_panicked" and        *)
(* "stop_panicked" after the panic! of a call made in the wrong state.     *)
(***************************************************************************)
\* the programs the worker is started on
SchedPrograms ==
    { Bytes(<<W(1, 2, 0, 0)>>),
      Bytes(<<W(8, 0, 0, 8), W(1, 2, 0, 2)>>),
      Bytes(<<W(1, 15, 15, 15)>>),
      Bytes(<<W(10, 15, 15, 15), W(13, 0, 0, 2)>>) }

\* is_fatal that takes no backend error for fatal
is_fatal_OnlyPlay(error) == error.type # "Backend"

\* FrontendError::is_fatal, of the error of a message
is_fatal(error) ==
    IF error.type = "Backend"
    THEN error.err.kind \in {"MemoryOverflow", "ProgramInvalid", "ProgramNotLoaded"}
    ELSE TRUE

\* Ok(format!("Executed intruction {} at 0x{:03x}", instruction, index))
TraceMessage(value) == [ok |-> TRUE, instruction |-> value[1][2], index |-> value[1][1]]
\* Err(FrontendError::Backend(error)), Err(FrontendError::Play(error))
BackendErrorMessage(err) == [ok |-> FALSE, error |-> [type |-> "Backend", err |-> err]]
PlayErrorMessage == [ok |-> FALSE, error |-> [type |-> "Play", err |-> None]]

\* Condvar::notify_one: a worker blocked in wait goes back to the top of the loop
Notified(pc) == IF pc = "wait" THEN "top" ELSE pc

SchedInit ==
    /\ backend = BackendNew
    /\ display = DisplayNew([track_changes |-> FALSE, wrap_sprites |-> FALSE])
    /\ keyboard = KeyboardNew
    /\ ret = NoCall
    /\ nticks = 0
    /\ debug_mode \in BOOLEAN
    /\ HandleNew

\* handle.get().unwrap().backend.load(None, program), as App::start does
OwnerLoad ==
    /\ opc = "idle" /\ frontend = "Some" /\ ~backend.loaded
    /\ \E program \in SchedPrograms : backend' = load(backend, None, program).b
    /\ UNCHANGED <<display, keyboard, ret, nticks, scheduler>>

\* FrontendHandle::started and FrontendHandle::suspended
started == frontend = "None"
suspended == command = "Suspend"

\* FrontendHandle::start: panics when started, else moves the frontend into a
\* new thread and keeps the receiver of a new channel
Start ==
    /\ opc = "idle"
    /\ IF started
       THEN /\ opc' = "start_panicked"
            /\ UNCHANGED <<frontend, receiver, channel, join_handle, wpc>>
       ELSE /\ frontend' = "None"
            /\ receiver' = "Some"
            /\ channel' = << >>
            /\ join_handle' = "Some"
            /\ wpc' = "sink"
            /\ UNCHANGED opc
    /\ UNCHANGED <<engine, debug_mode, command, keyboard_lock>>

\* suspend that sets the Command cell without looking at the state
Suspend_Unchecked ==
    /\ opc = "idle"
    /\ command' = "Suspend"
    /\ UNCHANGED <<engine, debug_mode, frontend, join_handle, receiver, channel,
                   keyboard_lock, wpc, opc>>

\* FrontendHandle::suspend: panics when not started or already suspended
Suspend ==
    /\ opc = "idle"
    /\ IF ~started \/ suspended
       THEN opc' = "suspend_panicked" /\ UNCHANGED command
       ELSE command' = "Suspend" /\ UNCHANGED opc
    /\ UNCHANGED <<engine, debug_mode, frontend, join_handle, receiver, channel,
                   keyboard_lock, wpc>>

\* FrontendHandle::resume: panics when not suspended
Resume ==
    /\ opc = "idle"
    /\ IF ~suspended
       THEN opc' = "resume_panicked" /\ UNCHANGED <<command, wpc>>
       ELSE /\ command' = "None"
            /\ wpc' = Notified(wpc)
            /\ UNCHANGED opc
    /\ UNCHANGED <<engine, debug_mode, frontend, join_handle, receiver, channel,
                   keyboard_lock>>

\* FrontendHandle::stop, lines 52-56: panics when not started, else the Command
\* cell is set to Stop
StopSet ==
    /\ opc = "idle"
    /\ IF ~started
       THEN opc' = "stop_panicked" /\ UNCHANGED command
       ELSE command' = "Stop" /\ opc' = "stop_notify"
    /\ UNCHANGED <<engine, debug_mode, frontend, join_handle, receiver, channel,
                   keyboard_lock, wpc>>

\* stop that drops the receiver before it joins the thread
StopNotify_DropsReceiver ==
    /\ opc = "stop_notify"
    /\ wpc' = Notified(wpc)
    /\ join_handle' = "None"
    /\ receiver' = "None"
    /\ opc' = "stop_join"
    /\ UNCHANGED <<engine, debug_mode, frontend, channel, command, keyboard_lock>>

\* FrontendHandle::stop, lines 57-59: notify_one, the join handle is taken
StopNotify ==
    /\ opc = "stop_notify"
    /\ wpc' = Notified(wpc)
    /\ join_handle' = "None"
    /\ opc' = "stop_join"
    /\ UNCHANGED <<engine, debug_mode, frontend, receiver, channel, command,
                   keyboard_lock>>

\* stop that leaves Stop in the Command cell
StopJoin_KeepsStop ==
    /\ opc = "stop_join"
    /\ \/ /\ wpc = "exited"
          /\ frontend' = "Some"
          /\ receiver' = "None"
          /\ channel' = << >>
          /\ opc' = "idle"
          /\ UNCHANGED command
       \/ /\ wpc = "panicked"
          /\ opc' = "panicked"
          /\ UNCHANGED <<frontend, receiver, channel, command>>
    /\ wpc' = "none"
    /\ UNCHANGED <<engine, debug_mode, join_handle, keyboard_lock>>

\* FrontendHandle::stop, lines 60-66: join returns once the thread has ended;
\* the frontend goes back into its slot, the receiver is dropped, the Command
\* cell is reset.  The join of a thread that panicked panics in unwrap.
StopJoin ==
    /\ opc = "stop_join"
    /\ \/ /\ wpc = "exited"
          /\ frontend' = "Some"
          /\ receiver' = "None"
          /\ channel' = << >>
          /\ command' = "None"
          /\ opc' = "idle"
       \/ /\ wpc = "panicked"
          /\ opc' = "panicked"
          /\ UNCHANGED <<frontend, receiver, channel, command>>
    /\ wpc' = "none"
    /\ UNCHANGED <<engine, debug_mode, join_handle, keyboard_lock>>

\* FrontendHandle::message: try_recv takes the oldest queued message
Message ==
    /\ opc = "idle" /\ receiver = "Some" /\ channel # << >>
    /\ channel' = Tail(channel)
    /\ UNCHANGED <<engine, debug_mode, frontend, join_handle, receiver, command,
                   keyboard_lock, wpc, opc>>

\* handle.keyboard_state().hold(key) and .release(key): the lock is taken for
\* the access; lock().unwrap() panics on the mutex a panicking worker poisoned
OwnerKey ==
    /\ opc = "idle" /\ keyboard_lock # "worker"
    /\ IF keyboard_lock = "poisoned"
       THEN opc' = "panicked" /\ UNCHANGED keyboard
       ELSE /\ \E key \in {1} :
                 keyboard' = IF keyboard[key] THEN release(keyboard, key)
                             ELSE hold(keyboard, key)
            /\ UNCHANGED opc
    /\ UNCHANGED <<backend, display, ret, nticks, debug_mode, frontend, join_handle,
                   receiver, channel, command, keyboard_lock, wpc>>

\* Frontend::reset on the frontend stop returned: backend.reset, display_buffer.clear
FrontendReset ==
    /\ opc = "idle" /\ frontend = "Some" /\ ret.op = "tick"
    /\ backend' = reset(backend)
    /\ display' = clear(display)
    /\ ret' = [NoCall EXCEPT !.op = "reset"]
    /\ UNCHANGED <<keyboard, nticks, scheduler>>

\* Frontend::run, lines 106-116: the sink is created, or the Play error is sent
\* and run returns
WorkerSink ==
    /\ wpc = "sink"
    /\ \/ wpc' = "top" /\ UNCHANGED channel
       \/ wpc' = "exited" /\ channel' = Append(channel, PlayErrorMessage)
    /\ UNCHANGED <<engine, debug_mode, frontend, join_handle, receiver, command,
                   keyboard_lock, opc>>

\* WorkerObserve that goes on with the iteration under Suspend
WorkerObserve_IgnoresSuspend ==
    /\ wpc = "top"
    /\ wpc' = CASE command = "None" -> "lock_keyboard"
                [] command = "Stop" -> "exited"
                [] command = "Suspend" -> "lock_keyboard"
    /\ UNCHANGED <<engine, debug_mode, frontend, join_handle, receiver, channel,
                   command, keyboard_lock, opc>>

\* lines 119-128: the Command cell is read under its lock
WorkerObserve ==
    /\ wpc = "top"
    /\ wpc' = CASE command = "None" -> "lock_keyboard"
                [] command = "Stop" -> "exited"
                [] command = "Suspend" -> "wait"
    /\ UNCHANGED <<engine, debug_mode, frontend, join_handle, receiver, channel,
                   command, keyboard_lock, opc>>

\* a wake-up after which the Command cell is not read again
WorkerSpuriousWake_NoRecheck ==
    /\ wpc = "wait"
    /\ wpc' = "lock_keyboard"
    /\ UNCHANGED <<engine, debug_mode, frontend, join_handle, receiver, channel,
                   command, keyboard_lock, opc>>

\* Condvar::wait may return without a notification
WorkerSpuriousWake ==
    /\ wpc = "wait"
    /\ wpc' = "top"
    /\ UNCHANGED <<engine, debug_mode, frontend, join_handle, receiver, channel,
                   command, keyboard_lock, opc>>

\* lines 130-134: the sound is played, the keyboard lock is taken
WorkerLockKeyboard ==
    /\ wpc = "lock_keyboard" /\ keyboard_lock = "free"
    /\ keyboard_lock' = "worker"
    /\ wpc' = "tick"
    /\ UNCHANGED <<engine, debug_mode, frontend, join_handle, receiver, channel,
                   command, opc>>

\* lines 136-139: backend.tick(n, (&mut display_buffer, &keyboard_state)); a
\* panic unwinds the thread, which poisons the keyboard mutex it holds
WorkerTick ==
    /\ wpc = "tick"
    /\ LET n == IF debug_mode THEN 1 ELSE INSTRUCTIONS_PER_TICK
       IN \E r \in tick(backend, display, keyboard, n) :
             /\ backend' = r.b
             /\ display' = r.d
             /\ ret' = TickCall(r, n)
             /\ wpc' = CASE r.ret.kind = "Ok" ->
                              IF debug_mode THEN "send_trace" ELSE "texture"
                         [] r.ret.kind = "Err" -> "send_err"
                         [] r.ret.kind = "Panic" -> "panicked"
             /\ keyboard_lock' = IF r.ret.kind = "Panic" THEN "poisoned" ELSE keyboard_lock
    /\ UNCHANGED <<keyboard, nticks, debug_mode, frontend, join_handle, receiver,
                   channel, command, opc>>

\* lines 142-147: the trace message is sent; send blocks while the channel is
\* full and its expect panics when the receiver is gone
WorkerSendTrace ==
    /\ wpc = "send_trace" /\ Len(channel) < MESSAGE_BUFFER_SIZE
    /\ IF receiver = "Some"
       THEN /\ channel' = Append(channel, TraceMessage(ret.value))
            /\ wpc' = "set_suspend"
            /\ UNCHANGED keyboard_lock
       ELSE wpc' = "panicked" /\ keyboard_lock' = "poisoned" /\ UNCHANGED channel
    /\ UNCHANGED <<engine, debug_mode, frontend, join_handle, receiver, command, opc>>

\* lines 154-164: the error is sent; a fatal error, or any error in debug mode,
\* leaves the loop
WorkerSendError ==
    /\ wpc = "send_err" /\ Len(channel) < MESSAGE_BUFFER_SIZE
    /\ IF receiver = "Some"
       THEN LET message == BackendErrorMessage(ret.err)
            IN /\ channel' = Append(channel, message)
               /\ IF is_fatal(message.error) \/ debug_mode
                  THEN wpc' = "exited" /\ keyboard_lock' = "free"
                  ELSE wpc' = "set_suspend" /\ UNCHANGED keyboard_lock
       ELSE wpc' = "panicked" /\ keyboard_lock' = "poisoned" /\ UNCHANGED channel
    /\ UNCHANGED <<engine, debug_mode, frontend, join_handle, receiver, command, opc>>

\* the worker goes on without setting the Command cell
WorkerSelfSuspend_Skipped ==
    /\ wpc = "set_suspend"
    /\ wpc' = "texture"
    /\ UNCHANGED <<engine, debug_mode, frontend, join_handle, receiver, channel,
                   command, keyboard_lock, opc>>

\* lines 149-150 and 166-167: the worker sets the Command cell to Suspend
WorkerSelfSuspend ==
    /\ wpc = "set_suspend"
    /\ command' = "Suspend"
    /\ wpc' = "texture"
    /\ UNCHANGED <<engine, debug_mode, frontend, join_handle, receiver, channel,
                   keyboard_lock, opc>>

\* lines 171-175: a dirty display buffer is handed to update_texture
WorkerTexture ==
    /\ wpc = "texture"
    /\ display' = [display EXCEPT !.dirty = FALSE]
    /\ wpc' = "sleep"
    /\ UNCHANGED <<backend, keyboard, ret, nticks, debug_mode, frontend, join_handle,
                   receiver, channel, command, keyboard_lock, opc>>

\* lines 177-180: the sleep (not in debug mode) and the end of the iteration,
\* where the keyboard guard goes out of scope
WorkerSleep ==
    /\ wpc = "sleep"
    /\ keyboard_lock' = "free"
    /\ wpc' = "top"
    /\ UNCHANGED <<engine, debug_mode, frontend, join_handle, receiver, channel,
                   command, opc>>

OwnerNext ==
    \/ OwnerLoad \/ Start \/ Suspend \/ Resume \/ StopSet \/ StopNotify \/ StopJoin
    \/ Message \/ OwnerKey \/ FrontendReset

WorkerNext ==
    \/ WorkerSink \/ WorkerObserve \/ WorkerSpuriousWake \/ WorkerLockKeyboard
    \/ WorkerTick \/ WorkerSendTrace \/ WorkerSendError \/ WorkerSelfSuspend
    \/ WorkerTexture \/ WorkerSleep

SchedNext == OwnerNext \/ WorkerNext

SchedSpec == SchedInit /\ [][SchedNext]_vars

(***************************************************************************)
(* Properties of the frontend (checked under SchedSpec)                     *)
(***************************************************************************)
\* the worker thread holds the frontend: it runs, or it has returned from run
\* and keeps the frontend for join
WorkerHoldsFrontend == wpc \notin {"none", "panicked"}

\* the worker can take no step that brings it to the end of its thread until
\* the owning context acts: it is parked on the condition variable with Suspend
\* in the Command cell, or blocked sending into the full channel
WorkerBlocked ==
    \/ wpc = "wait" /\ command = "Suspend"
    \/ wpc \in {"send_trace", "send_err"} /\ Len(channel) = MESSAGE_BUFFER_SIZE

\* C1: a stop() on a started scheduler terminates whatever the worker was
\* doing: while stop waits in join the worker is never blocked for good
C1_StopTerminates ==
    opc = "stop_join" => ~WorkerBlocked

\* C2: the frontend (with its engine) is held by exactly one context: it is in
\* the handle's slot exactly when no worker thread holds it
C2_EngineHeldByOne ==
    /\ (frontend = "Some") # WorkerHoldsFrontend
    /\ join_handle = "Some" => wpc # "none"

\* C3: the worker holds the keyboard lock only for a keyboard access (the tick
\* that reads the keys), never across a send, the texture update or the sleep
C3_KeyboardLockOnlyForAccess ==
    keyboard_lock = "worker" => wpc = "tick"

(***************************************************************************)
(* Properties of the backend                                                *)
(***************************************************************************)
\* a step that is a call of tick
TickStep == ret'.op = "tick" /\ nticks' = nticks + 1
\* a call of tick that fetched exactly one instruction
OneInstruction == TickStep /\ Len(ret'.executed) = 1
\* the instruction fetched last by the call ret records: <<address, word>>
LastFetched(r) == r.executed[Len(r.executed)]
IsCall(w) == operator_code(w) = 2
IsReturn(w) == w = W(0, 0, 14, 14)
IsWaitKey(w) == operator_code(w) = 15 /\ operand_nn(w) = 10
Failed(r, kind) == r.op = "tick" /\ r.kind = "Err" /\ r.err.kind = kind

\* C4: after a successful load no tick call indexes memory outside [0, 4096):
\* every instruction stays in bounds or returns an error before the access
C4_TickStaysInBounds ==
    ret.op = "tick" => ret.kind # "Panic"

\* C5: Fx0A leaves the program counter at its own address while no key is
\* pressed, and with a key pressed stores the key in Vx and moves on to the
\* next instruction
C5_WaitKeyMovesOn ==
    [][ (TickStep /\ ret'.executed # << >> /\ IsWaitKey(LastFetched(ret')[2])) =>
           LET at == LastFetched(ret')[1]
               x == operand_x(LastFetched(ret')[2])
               key == pressed_key(keyboard)
           IN IF key = None
              THEN backend'.index = at
              ELSE /\ backend'.index = at + INSTRUCTION_SIZE
                   /\ backend'.registers.general[x] = key[1] ]_vars

\* C6: the stack never holds more than 12 return addresses; a call succeeds
\* while fewer than 12 are held and the call on a full stack fails with
\* StackOverflow without pushing; 00EE on the empty stack fails with
\* StackUnderflow and pops nothing
C6_StackBounded == Len(backend.stack) <= STACK_SIZE

C6_StackStep ==
    /\ Failed(ret', "StackOverflow") =>
          /\ IsCall(LastFetched(ret')[2])
          /\ Len(backend'.stack) = STACK_SIZE
          /\ Len(ret'.executed) = 1 => backend'.stack = backend.stack
    /\ Failed(ret', "StackUnderflow") =>
          /\ IsReturn(LastFetched(ret')[2])
          /\ backend'.stack = << >>
          /\ Len(ret'.executed) = 1 => backend.stack = << >>
    /\ (Len(ret'.executed) = 1 /\ IsCall(ret'.executed[1][2])) =>
          IF Len(backend.stack) < STACK_SIZE
          THEN /\ ret'.kind = "Ok"
               /\ backend'.stack = Append(backend.stack, ret'.executed[1][1] + INSTRUCTION_SIZE)
          ELSE Failed(ret', "StackOverflow")
    /\ (Len(ret'.executed) = 1 /\ IsReturn(ret'.executed[1][2])) =>
          IF backend.stack = << >>
          THEN Failed(ret', "StackUnderflow")
          ELSE /\ ret'.kind = "Ok"
               /\ backend'.stack = SubSeq(backend.stack, 1, Len(backend.stack) - 1)
    /\ (ret'.executed # << >>
        /\ \A i \in 1 .. Len(ret'.executed) : IsCall(ret'.executed[i][2])) =>
          LET calls == Len(backend.stack) + Len(ret'.executed)
          IN IF calls <= STACK_SIZE
             THEN ret'.kind = "Ok" /\ Len(backend'.stack) = calls
             ELSE Failed(ret', "StackOverflow") /\ calls = STACK_SIZE + 1

C6_StackDiscipline ==
    []C6_StackBounded /\ [][TickStep => C6_StackStep]_vars

\* twelve calls from the empty stack succeeded and the thirteenth failed
C6_Witness ==
    /\ Failed(ret, "StackOverflow")
    /\ Len(ret.executed) = STACK_SIZE + 1
    /\ Len(backend.stack) = STACK_SIZE

\* C7: after 8xy5 (Vx = Vx - Vy) and 8xy7 (Vx = Vy - Vx) VF is 1 if and only
\* if the subtraction did not borrow (minuend >= subtrahend), for all x and y
C7_SubtractFlag ==
    [][ (OneInstruction /\ operator_code(ret'.executed[1][2]) = 8
         /\ operand_n(ret'.executed[1][2]) \in {5, 7}) =>
           LET w == ret'.executed[1][2]
               vx == backend.registers.general[operand_x(w)]
               vy == backend.registers.general[operand_y(w)]
               minuend == IF operand_n(w) = 5 THEN vx ELSE vy
               subtrahend == IF operand_n(w) = 5 THEN vy ELSE vx
           IN backend'.registers.general[15] = IF minuend >= subtrahend THEN 1 ELSE 0 ]_vars

\* C8: after 8xy6 VF is the least significant bit of the old Vx and after 8xyE
\* its most significant bit, for every x, 15 included
C8_ShiftFlag ==
    [][ (OneInstruction /\ operator_code(ret'.executed[1][2]) = 8
         /\ operand_n(ret'.executed[1][2]) \in {6, 14}) =>
           LET w == ret'.executed[1][2]
               vx == backend.registers.general[operand_x(w)]
           IN backend'.registers.general[15] =
                 IF operand_n(w) = 6 THEN vx % 2 ELSE vx \div 128 ]_vars

\* C9: after reset() the execution state is that of a new backend (program
\* counter 512, registers, address register, stack and both timers zero);
\* memory and the loaded flag are unchanged
C9_ResetRestores ==
    [][ (ret.op = "tick" /\ ret'.op = "reset") =>
           backend' = [BackendNew EXCEPT !.memory = backend.memory,
                                         !.loaded = backend.loaded] ]_vars

\* C10: an error of tick carries the address of the faulting instruction and,
\* when the word had been fetched, the word
C10_ErrorCarriesInstruction ==
    (ret.op = "tick" /\ ret.kind = "Err" /\ ret.err.kind # "ProgramNotLoaded") =>
       IF ret.at_fetch
       THEN ret.err.instruction = Some(<<backend.index, None>>)
       ELSE ret.err.instruction =
               Some(<<LastFetched(ret)[1], Some(LastFetched(ret)[2])>>)

\* the words the instruction set does not hold: 8xyN with N in 8..D or F, Exnn
\* other than Ex9E and ExA1, Fxnn outside the sub-codes, 5xyN and 9xyN with N # 0
Unlisted(w) ==
    \/ operator_code(w) = 8 /\ operand_n(w) \in (8 .. 13) \cup {15}
    \/ operator_code(w) = 14 /\ operand_nn(w) \notin {158, 161}
    \/ operator_code(w) = 15 /\ operand_nn(w) \notin {7, 10, 21, 24, 30, 41, 51, 85, 101}
    \/ operator_code(w) \in {5, 9} /\ operand_n(w) # 0

\* C11: a word outside the instruction set makes tick fail with
\* UnrecognizedInstruction: it is the last word the call fetches
C11_UnlistedWordFails ==
    [][ TickStep =>
           \A i \in 1 .. Len(ret'.executed) :
              Unlisted(ret'.executed[i][2]) =>
                 /\ i = Len(ret'.executed)
                 /\ Failed(ret', "UnrecognizedInstruction") ]_vars

IsSkip(w) ==
    \/ operator_code(w) \in {3, 4}
    \/ operator_code(w) \in {5, 9} /\ operand_n(w) = 0

\* the timers after the decrement of one tick call
Decremented(timers) ==
    [delay |-> IF timers.delay > 0 THEN timers.delay - 1 ELSE 0,
     sound |-> IF timers.sound > 0 THEN timers.sound - 1 ELSE 0]

\* C14: 3xnn, 4xnn, 5xy0 and 9xy0 at address a leave the program counter at
\* a + 4 when their condition holds and at a + 2 otherwise, and change neither
\* the registers, the stack, the memory nor the timers
C14_SkipAdvances ==
    [][ (OneInstruction /\ IsSkip(ret'.executed[1][2])) =>
           LET a == ret'.executed[1][1]
               w == ret'.executed[1][2]
               vx == backend.registers.general[operand_x(w)]
               vy == backend.registers.general[operand_y(w)]
               holds == CASE operator_code(w) = 3 -> vx = operand_nn(w)
                          [] operator_code(w) = 4 -> vx # operand_nn(w)
                          [] operator_code(w) = 5 -> vx = vy
                          [] operator_code(w) = 9 -> vx # vy
           IN /\ ret'.kind = "Ok"
              /\ backend'.index = IF holds THEN a + 4 ELSE a + 2
              /\ backend'.registers = backend.registers
              /\ backend'.stack = backend.stack
              /\ backend'.memory = backend.memory
              /\ backend'.timers = Decremented(backend.timers) ]_vars

\* 9xy0 with Vx # Vy moved the program counter by four
C14_Witness ==
    /\ ret.op = "tick" /\ Len(ret.executed) = 1 /\ IsSkip(ret.executed[1][2])
    /\ operator_code(ret.executed[1][2]) = 9
    /\ backend.index = ret.executed[1][1] + 4

Executes(r, nn) ==
    \E i \in 1 .. Len(r.executed) :
       operator_code(r.executed[i][2]) = 15 /\ operand_nn(r.executed[i][2]) = nn

\* C15: a tick call on a loaded backend decrements each timer by one, down to
\* zero at most, once, whatever the budget; a timer ends elsewhere only when
\* the batch executed Fx15 (delay) or Fx18 (sound)
C15_TimersDecrementOnce ==
    [][ (TickStep /\ backend.loaded) =>
           /\ ~Executes(ret', 21) => backend'.timers.delay = Decremented(backend.timers).delay
           /\ ~Executes(ret', 24) => backend'.timers.sound = Decremented(backend.timers).sound ]_vars

\* a call with the full budget took both timers from 3 to 2
C15_Witness ==
    /\ ret.op = "tick" /\ ret.n = INSTRUCTIONS_PER_TICK
    /\ Len(ret.executed) = INSTRUCTIONS_PER_TICK
    /\ ~Executes(ret, 21) /\ ~Executes(ret, 24)
    /\ backend.timers = [delay |-> 2, sound |-> 2]

EndsBatch(w) ==
    \/ operator_code(w) = 14 /\ operand_nn(w) \in {158, 161}
    \/ IsWaitKey(w)

LoadStep == ret'.op = "load" /\ ret' # ret

\* C17: load fails with ProgramInvalid exactly when the program is longer than
\* 4096 - 512 bytes or of odd length; a failed load changes nothing
C17_LoadRejects ==
    [][ LoadStep =>
           LET len == Len(ret'.program)
               invalid == len > 3584 \/ len % 2 = 1
           IN /\ invalid <=> ret'.kind = "Err"
              /\ invalid => ret'.err = BackendError(None, "ProgramInvalid") /\ backend' = backend
              /\ ~invalid => ret'.kind = "Ok" /\ backend'.loaded ]_vars

\* the longest program is loaded, and programs of odd length are refused
C17_Witness ==
    /\ ret.op = "load" /\ ret.kind = "Ok" /\ Len(ret.program) = 3584

\* C18: after a successful load the memory holds the font (the default font
\* when none is given) in [0, 80), the program from 512 and zero elsewhere, and
\* the backend is loaded, whatever was loaded or written before
C18_LoadLayout ==
    [][ (LoadStep /\ ret'.kind = "Ok") =>
           LET f == IF ret'.font = None THEN DefaultFont ELSE ret'.font[1]
               program == ret'.program
           IN /\ backend'.loaded
              /\ \A a \in 0 .. 4095 :
                    backend'.memory[a] =
                       IF a < 80 THEN f[a + 1]
                       ELSE IF a >= 512 /\ a < 512 + Len(program) THEN program[a - 511]
                       ELSE 0 ]_vars

\* a loaded backend that has run is loaded again
C18_Witness ==
    /\ ret.op = "load" /\ ret.kind = "Ok" /\ nticks > 0
    /\ ret.program = Bytes(<<W(1, 2, 0, 0)>>)
    /\ backend.memory[514] = 0

\* C19: tick on a backend that was never loaded fails with ProgramNotLoaded and
\* changes neither the backend nor the display buffer
C19_TickNotLoaded ==
    [][ (TickStep /\ ~backend.loaded) =>
           /\ Failed(ret', "ProgramNotLoaded")
           /\ ret'.err.instruction = None
           /\ backend' = backend
           /\ display' = display ]_vars

C19_Witness ==
    /\ Failed(ret, "ProgramNotLoaded") /\ ~backend.loaded /\ ret.executed = << >>

(***************************************************************************)
(* Errors and suspension in the worker (checked under SchedSpec)            *)
(***************************************************************************)
RecoverableKinds ==
    {"StackOverflow", "StackUnderflow", "UnrecognizedInstruction", "UnrecognizedSprite"}
FatalKinds == {"MemoryOverflow", "ProgramInvalid", "ProgramNotLoaded"}

\* the worker's step out of the send of the error tick returned
ErrorSent == wpc = "send_err" /\ wpc' # wpc

\* C12: after a recoverable error of tick the worker reports the error and
\* suspends itself, in normal mode and in debug mode: it does not leave its loop
C12_RecoverableErrorSuspends ==
    [][ (ErrorSent /\ ret.err.kind \in RecoverableKinds) =>
           /\ channel' = Append(channel, BackendErrorMessage(ret.err))
           /\ wpc' = "set_suspend" ]_vars

\* C13: after a fatal error of tick, and after the error of the sink, the
\* worker sends the error once and leaves its loop: the Command cell is not
\* written, and the thread that returned from run neither ticks nor sends
C13_FatalErrorExits ==
    [][ /\ (ErrorSent /\ ret.err.kind \in FatalKinds) =>
              /\ channel' = Append(channel, BackendErrorMessage(ret.err))
              /\ wpc' = "exited"
              /\ command' = command
        /\ (wpc = "sink" /\ wpc' # "top" /\ wpc' # wpc) =>
              /\ channel' = Append(channel, PlayErrorMessage)
              /\ wpc' = "exited"
              /\ command' = command
        /\ wpc = "exited" =>
              /\ wpc' \in {"exited", "none"}
              /\ backend' = backend /\ display' = display /\ ret' = ret
              /\ Len(channel') <= Len(channel) ]_vars

\* the worker has left its loop after the MemoryOverflow it reported
C13_Witness ==
    /\ wpc = "exited" /\ ~debug_mode /\ command = "None"
    /\ channel = <<BackendErrorMessage(BackendError(Some(<<4095, None>>), "MemoryOverflow"))>>

\* C20: a worker that observes Suspend blocks until it is woken, and from
\* there to its next tick neither the backend nor the display buffer changes
C20_SuspendedEngineUnchanged ==
    [][ /\ (wpc = "top" /\ command = "Suspend" /\ wpc' # wpc) => wpc' = "wait"
        /\ wpc = "wait" => wpc' \in {"wait", "top"}
        /\ wpc \in {"top", "wait", "lock_keyboard"} =>
              backend' = backend /\ display' = display ]_vars

\* the worker is blocked under Suspend after a tick that executed
C20_Witness ==
    /\ wpc = "wait" /\ command = "Suspend"
    /\ ret.op = "tick" /\ ret.kind = "Ok" /\ ~debug_mode

(***************************************************************************)
(* Fx33, Fx55, Fx65                                                        *)
(***************************************************************************)
IsBcd(w) == operator_code(w) = 15 /\ operand_nn(w) = 51
IsDump(w) == operator_code(w) = 15 /\ operand_nn(w) = 85
IsRestore(w) == operator_code(w) = 15 /\ operand_nn(w) = 101
\* the word of the only instruction a one-instruction call fetched
OnlyWord == LastFetched(ret')[2]

\* C29: Fx33 with I + 2 <= 4095 writes the hundreds, tens and ones digit of Vx
\* to memory[I], memory[I + 1], memory[I + 2] and changes no other byte, no
\* register and not I; with I + 2 >= 4096 it fails with MemoryOverflow and
\* writes nothing
C29_BcdDigits ==
    [][ (OneInstruction /\ IsBcd(OnlyWord)) =>
          LET I == backend.registers.address
              number == backend.registers.general[operand_x(OnlyWord)]
          IN /\ backend'.registers = backend.registers
             /\ IF I + 2 <= MEMORY_SIZE - 1
                THEN /\ ret'.kind = "Ok"
                     /\ backend'.memory[I] = number \div 100
                     /\ backend'.memory[I + 1] = (number % 100) \div 10
                     /\ backend'.memory[I + 2] = number % 10
                     /\ \A a \in 0 .. MEMORY_SIZE - 1 :
                           (a < I \/ a > I + 2) => backend'.memory[a] = backend.memory[a]
                ELSE /\ Failed(ret', "MemoryOverflow")
                     /\ backend'.memory = backend.memory ]_vars

\* 205 in V0 has been written as 2, 0, 5 from address 0x300
C29_Witness ==
    /\ ret.op = "tick" /\ ret.kind = "Ok" /\ Len(ret.executed) = 1
    /\ LastFetched(ret)[2] = W(15, 0, 3, 3)
    /\ backend.registers.general[0] = 205 /\ backend.registers.address = 768
    /\ backend.memory[768] = 2 /\ backend.memory[769] = 0 /\ backend.memory[770] = 5

\* C30: Fx55 copies exactly V0..Vx to memory[I .. I + x] and Fx65 copies exactly
\* memory[I .. I + x] to V0..Vx; the registers above Vx, the memory outside
\* [I, I + x] and I are unchanged; with I + x >= 4096 the instruction fails with
\* MemoryOverflow and copies nothing
C30_DumpRestoreFrame ==
    [][ (OneInstruction /\ (IsDump(OnlyWord) \/ IsRestore(OnlyWord))) =>
          LET I == backend.registers.address
              x == operand_x(OnlyWord)
          IN /\ backend'.registers.address = I
             /\ IF I + x >= MEMORY_SIZE
                THEN /\ Failed(ret', "MemoryOverflow")
                     /\ backend'.memory = backend.memory
                     /\ backend'.registers = backend.registers
                ELSE /\ ret'.kind = "Ok"
                     /\ IsDump(OnlyWord) =>
                           /\ backend'.registers = backend.registers
                           /\ \A a \in 0 .. MEMORY_SIZE - 1 :
                                 backend'.memory[a] =
                                   IF a >= I /\ a <= I + x
                                   THEN backend.registers.general[a - I]
                                   ELSE backend.memory[a]
                     /\ IsRestore(OnlyWord) =>
                           /\ backend'.memory = backend.memory
                           /\ \A r \in 0 .. REGISTER_COUNT - 1 :
                                 backend'.registers.general[r] =
                                   IF r <= x THEN backend.memory[I + r]
                                   ELSE backend.registers.general[r] ]_vars

\* F365 at I = 0x200 has read the four bytes A2 00 F3 65 of the program
C30_Witness ==
    /\ ret.op = "tick" /\ ret.kind = "Ok" /\ Len(ret.executed) = 1
    /\ LastFetched(ret)[2] = W(15, 3, 6, 5)
    /\ backend.registers.address = 512
    /\ backend.registers.general[0] = 162 /\ backend.registers.general[1] = 0
    /\ backend.registers.general[2] = 243 /\ backend.registers.general[3] = 101
    /\ backend.registers.general[4] = 0

(***************************************************************************)
(* DisplayBuffer::draw                                                     *)
(***************************************************************************)
\* the offsets <<dx, dy>> of the set bits of a sprite, the leftmost pixel of a
\* row being the most significant bit of its byte
SetBits(sprite) ==
    {o \in (0 .. 7) \X (0 .. Len(sprite) - 1) :
        (sprite[o[2] + 1] \div (2 ^ (7 - o[1]))) % 2 = 1}
\* the set bits that stay inside the buffer when laid out from the origin
InsideBits(origin, sprite) ==
    {o \in SetBits(sprite) : /\ origin[1] + o[1] <= DISPLAY_BUFFER_WIDTH - 1
                             /\ origin[2] + o[2] <= DISPLAY_BUFFER_HEIGHT - 1}
\* the origin a draw works from
Reduced(coordinates) ==
    <<coordinates[1] % DISPLAY_BUFFER_WIDTH, coordinates[2] % DISPLAY_BUFFER_HEIGHT>>
\* the pixels a draw step flipped
Flipped == (display'.buffer \ display.buffer) \cup (display.buffer \ display'.buffer)
DrawStep == ret'.op = "draw"

\* C26: drawing the same sprite at the same coordinates twice in a row restores
\* the buffer, and an all-zero sprite changes no pixel and reports no collision
C26_DrawTwiceRestores ==
    [][ DrawStep =>
          LET again == draw(display', ret'.coordinates, ret'.sprite)
          IN /\ again.d.buffer = display.buffer
             /\ (\A i \in 1 .. Len(ret'.sprite) : ret'.sprite[i] = 0) =>
                   /\ display'.buffer = display.buffer
                   /\ ret'.value = Some(FALSE) ]_vars

\* the tall sprite drawn twice across both far edges with wrapping: the second
\* draw collided and left the buffer empty again
C26_Witness ==
    /\ ret.op = "draw" /\ ret.sprite = TallSprite /\ ret.coordinates = <<60, 30>>
    /\ ret.value = Some(TRUE)
    /\ display.options.wrap_sprites /\ display.buffer = {}

\* C27: draw flips the pixel under every set sprite bit it draws, bit dx of row
\* dy counted from the most significant bit, leaves every pixel under no set
\* bit alone, and returns true iff a pixel that was on has been flipped
C27_DrawXorCollision ==
    [][ DrawStep =>
          LET origin == Reduced(ret'.coordinates)
              Cell(o) == <<(origin[1] + o[1]) % DISPLAY_BUFFER_WIDTH,
                           (origin[2] + o[2]) % DISPLAY_BUFFER_HEIGHT>>
          IN /\ \A o \in InsideBits(origin, ret'.sprite) : Cell(o) \in Flipped
             /\ \A p \in Flipped : \E o \in SetBits(ret'.sprite) : p = Cell(o)
             /\ ret'.value = Some(display.buffer \ display'.buffer # {}) ]_vars

\* a draw that switched some pixels off and others on
C27_Witness ==
    /\ ret.op = "draw" /\ ret.value = Some(TRUE) /\ ret.sprite = <<225>>
    /\ <<7, 0>> \in display.buffer /\ <<0, 0>> \notin display.buffer

\* C28: draw reduces the origin modulo 64 x 32; without wrap_sprites it draws
\* exactly the bits with origin.x + dx <= 63 and origin.y + dy <= 31, each at
\* <<origin.x + dx, origin.y + dy>>; with wrap_sprites it draws every bit at
\* <<(origin.x + dx) mod 64, (origin.y + dy) mod 32>>
C28_DrawClipOrWrap ==
    [][ DrawStep =>
          LET origin == Reduced(ret'.coordinates)
          IN Flipped =
               IF display.options.wrap_sprites
               THEN {<<(origin[1] + o[1]) % DISPLAY_BUFFER_WIDTH,
                       (origin[2] + o[2]) % DISPLAY_BUFFER_HEIGHT>> :
                       o \in SetBits(ret'.sprite)}
               ELSE {<<origin[1] + o[1], origin[2] + o[2]>> :
                       o \in InsideBits(origin, ret'.sprite)} ]_vars

\* the tall sprite at <<124, 62>> without wrapping: only the four pixels of its
\* first row that lie left of the edge are on
C28_Witness ==
    /\ ret.op = "draw" /\ ret.sprite = TallSprite /\ ret.coordinates = <<124, 62>>
    /\ ~display.options.wrap_sprites
    /\ display.buffer = {<<60, 30>>, <<61, 30>>, <<62, 30>>, <<63, 30>>}

(***************************************************************************)
(* Restart, misuse of the control operations, debug mode, the mailbox      *)
(***************************************************************************)
\* steps of the owning context: stop returns, start spawns, resume takes effect
StopReturns == opc = "stop_join" /\ opc' = "idle"
StartSpawns == frontend = "Some" /\ frontend' = "None"
ResumeActs == opc = "idle" /\ opc' = "idle" /\ command = "Suspend" /\ command' = "None"
\* the worker's step out of its call of tick
WorkerTicks == wpc = "tick" /\ wpc' # "tick"

\* C21: stop() puts the engine back as the worker left it and resets the Command
\* cell to None, and a start() that follows without a reset hands the same
\* engine to the new worker, which runs: between the last tick of the old worker
\* and the first tick of the new one the backend changes only by a load or
\* a reset made on the slot
C21_RestartContinues ==
    [][ /\ StopReturns =>
              /\ backend' = backend /\ display' = display
              /\ frontend' = "Some" /\ command' = "None"
        /\ StartSpawns =>
              /\ backend' = backend /\ display' = display
              /\ command = "None" /\ command' = "None"
              /\ wpc' = "sink"
        /\ backend' # backend => WorkerTicks \/ (opc = "idle" /\ ~started)
        /\ (wpc = "top" /\ command = "None" /\ wpc' # wpc) => wpc' = "lock_keyboard" ]_vars

\* a worker has just been started on an engine that an earlier worker ticked
\* and nobody reset
C21_Witness ==
    /\ wpc = "sink" /\ started /\ command = "None"
    /\ ret.op = "tick" /\ ret.kind = "Ok" /\ backend.loaded

\* the panics of the control operations called in the wrong state
MisusePanics == {"start_panicked", "suspend_panicked", "resume_panicked", "stop_panicked"}

\* C22: a control operation called outside its allowed state panics and changes
\* neither the Command cell, the engine slot, the mailbox nor the worker, and
\* none of them takes effect outside its allowed state
C22_MisuseFails ==
    [][ /\ (opc' \in MisusePanics /\ opc' # opc) =>
              /\ opc = "idle"
              /\ UNCHANGED <<command, frontend, join_handle, receiver, channel, wpc,
                             engine, keyboard_lock>>
              /\ opc' = "start_panicked" => started
              /\ opc' = "suspend_panicked" => ~started \/ suspended
              /\ opc' = "resume_panicked" => ~suspended
              /\ opc' = "stop_panicked" => ~started
        /\ (wpc' = "sink" /\ wpc # "sink") => ~started
        /\ (command' = "Suspend" /\ command # "Suspend" /\ wpc' = wpc) => started
        /\ (command' = "None" /\ command # "None") => suspended \/ opc = "stop_join"
        /\ (opc' = "stop_notify" /\ opc = "idle") => started ]_vars

\* resume() has panicked on a worker that was not suspended, and the worker is
\* about to tick
C22_Witness ==
    /\ opc = "resume_panicked" /\ started /\ command = "None"
    /\ wpc = "tick" /\ receiver = "Some" /\ join_handle = "Some"

\* C23: in debug mode every tick has the budget 1, a successful tick is followed
\* by one trace message and by Command = Suspend, and a resume() is followed by
\* exactly one instruction before the next suspension: it never finds the
\* worker between its tick and the suspension that belongs to that tick
C23_DebugSingleStep ==
    [][ debug_mode =>
          /\ WorkerTicks =>
                /\ ret'.n = 1
                /\ ret'.kind = "Ok" => Len(ret'.executed) = 1 /\ wpc' = "send_trace"
          /\ (wpc = "send_trace" /\ wpc' # wpc) =>
                /\ channel' = Append(channel, TraceMessage(ret.value))
                /\ wpc' = "set_suspend"
          /\ (wpc = "set_suspend" /\ wpc' # wpc) => command' = "Suspend"
          /\ ResumeActs => wpc \notin {"send_trace", "set_suspend"} ]_vars

\* C24: the receiving end of the mailbox exists whenever a worker is alive, so
\* no send of the worker finds the mailbox closed
C24_MailboxOpen ==
    /\ wpc \notin {"none", "exited", "panicked"} => receiver = "Some"
    /\ wpc \in {"send_trace", "send_err"} => receiver = "Some"
    /\ join_handle = "Some" => receiver = "Some"

\* the worker is about to send while the owner is inside stop
C24_Witness ==
    /\ wpc = "send_err" /\ opc = "stop_join" /\ receiver = "Some"

\* the ticks the worker can still complete while the Command cell stays Suspend
TicksAhead(pc) == IF pc \in {"lock_keyboard", "tick"} THEN 1 ELSE 0

\* C25: while the Command cell stays Suspend the worker completes at most one
\* further tick, the one of the iteration it is in; at the top of the loop it
\* blocks, and it blocks again after a wake-up that finds Suspend
C25_SuspendStopsTicks ==
    [][ (command = "Suspend" /\ command' = "Suspend") =>
          /\ TicksAhead(wpc') <= TicksAhead(wpc)
          /\ WorkerTicks => TicksAhead(wpc) = 1 /\ TicksAhead(wpc') = 0
          /\ (wpc = "top" /\ wpc' # wpc) => wpc' = "wait"
          /\ (wpc = "wait" /\ wpc' # wpc) => wpc' = "top" ]_vars

\* suspend() has returned while the worker is inside an iteration, its one
\* further tick still ahead
C25_Witness ==
    /\ command = "Suspend" /\ wpc = "tick" /\ opc = "idle" /\ ~debug_mode

(***************************************************************************)
(* The address register, the value tick returns, 8xy4, call and return,    *)
(* the Command cell under Stop, the state after a recoverable error        *)
(***************************************************************************)
IsSetAddress(w) == operator_code(w) = 10
IsAddAddress(w) == operator_code(w) = 15 /\ operand_nn(w) = 30
IsCharacter(w) == operator_code(w) = 15 /\ operand_nn(w) = 41

\* C31: the address register is within 0 .. 0xFFF in every reachable state: Annn
\* sets it to nnn, Fx1E to (I + Vx) mod 4096, Fx29 to Vx * 5 for Vx < 16 (and
\* fails with UnrecognizedSprite, I unchanged, for Vx >= 16), and no other
\* instruction changes it
C31_AddressRegister ==
    /\ [](backend.registers.address \in 0 .. MEMORY_SIZE - 1)
    /\ [][ OneInstruction =>
             LET w == OnlyWord
                 I == backend.registers.address
                 vx == backend.registers.general[operand_x(w)]
             IN /\ backend'.registers.address =
                      CASE IsSetAddress(w) -> operand_nnn(w)
                        [] IsAddAddress(w) -> (I + vx) % 4096
                        [] IsCharacter(w) /\ vx < KEY_COUNT -> vx * CHARACTER_SIZE
                        [] OTHER -> I
                /\ (IsCharacter(w) /\ vx >= KEY_COUNT) => Failed(ret', "UnrecognizedSprite")
                /\ (IsCharacter(w) /\ vx < KEY_COUNT) => ret'.kind = "Ok" ]_vars

\* FF1E with I = 0xFFF and V0 = 0xFF has wrapped the address register to 0x0FE
C31_Witness ==
    /\ ret.op = "tick" /\ ret.kind = "Ok" /\ Len(ret.executed) = 1
    /\ IsAddAddress(LastFetched(ret)[2])
    /\ backend.registers.general[0] = 255 /\ backend.registers.address = 254

\* C32: a successful tick returns the address of the last instruction executed
\* in the batch together with the word that was executed there, also when the
\* batch ended early, when the last instruction was a skip that was not taken,
\* and when an instruction of the batch overwrote the bytes at that address
C32_ReturnsExecutedWord ==
    [][ (TickStep /\ ret'.kind = "Ok") => ret'.value = Some(LastFetched(ret')) ]_vars

\* C33: after 8xy4 VF is 1 if Vx + Vy > 255 and 0 otherwise, for all x and y,
\* x = 15 included, and for x # 15 Vx holds (Vx + Vy) mod 256
C33_AddCarryFlag ==
    [][ (OneInstruction /\ operator_code(OnlyWord) = 8 /\ operand_n(OnlyWord) = 4) =>
           LET x == operand_x(OnlyWord)
               sum == backend.registers.general[x]
                        + backend.registers.general[operand_y(OnlyWord)]
           IN /\ backend'.registers.general[15] = IF sum > U8_MAX THEN 1 ELSE 0
              /\ x # 15 => backend'.registers.general[x] = sum % 256 ]_vars

IsJump(w) == operator_code(w) = 1
\* the call before this one was a tick that executed one instruction, a call
AfterCall ==
    /\ ret.op = "tick" /\ ret.kind = "Ok" /\ Len(ret.executed) = 1
    /\ IsCall(ret.executed[1][2])

\* C34: 2nnn at address a pushes a + 2 and jumps to nnn, a 00EE pops the top of
\* the stack into the program counter, so a return that follows a call goes on
\* at a + 2 with the stack as it was before the call; 1nnn sets the program
\* counter to nnn and leaves the stack alone
C34_CallReturn ==
    [][ (OneInstruction /\ ret'.kind = "Ok") =>
          LET a == LastFetched(ret')[1]
              w == OnlyWord
          IN /\ IsCall(w) =>
                   /\ backend'.index = operand_nnn(w)
                   /\ backend'.stack = Append(backend.stack, a + INSTRUCTION_SIZE)
             /\ IsReturn(w) =>
                   /\ backend.stack # << >>
                   /\ backend'.index = backend.stack[Len(backend.stack)]
                   /\ backend.stack = Append(backend'.stack, backend'.index)
             /\ (IsReturn(w) /\ AfterCall) =>
                   backend'.index = ret.executed[1][1] + INSTRUCTION_SIZE
             /\ IsJump(w) =>
                   /\ backend'.index = operand_nnn(w)
                   /\ backend'.stack = backend.stack ]_vars

\* 2204 at 0x200 and the 00EE at 0x204: execution goes on at 0x202, the stack
\* is empty again
C34_Witness ==
    /\ ret.op = "tick" /\ ret.kind = "Ok" /\ ret.executed = <<<<516, W(0, 0, 14, 14)>>>>
    /\ backend.index = 514 /\ backend.stack = << >>

\* C35: once stop() has set the Command cell to Stop, no step changes the cell
\* before the worker has exited: the worker's own store of Suspend never
\* overwrites a pending Stop
C35_StopNotOverwritten ==
    [][ (command = "Stop" /\ wpc \notin {"none", "exited", "panicked"}) =>
           command' = "Stop" ]_vars

\* a tick that returned one of the four errors a worker recovers from
Recoverable(r) == r.op = "tick" /\ r.kind = "Err" /\ r.err.kind \in RecoverableKinds

\* C36: a tick that fails with StackOverflow, StackUnderflow,
\* UnrecognizedInstruction or UnrecognizedSprite at address a leaves the program
\* counter at a + 2 and registers, stack, memory and display as they were
\* before the faulting instruction (the timers decremented), and the tick
\* after it starts with the instruction at a + 2
C36_RecoverableErrorState ==
    [][ /\ (TickStep /\ Recoverable(ret')) =>
              LET a == LastFetched(ret')[1]
              IN /\ backend'.index = a + INSTRUCTION_SIZE
                 /\ ret'.err.instruction = Some(<<a, Some(LastFetched(ret')[2])>>)
                 /\ Len(ret'.executed) = 1 =>
                       /\ a = backend.index
                       /\ backend' = [backend EXCEPT !.index = a + INSTRUCTION_SIZE,
                                                     !.timers = Decremented(@)]
                       /\ display' = display
        /\ (TickStep /\ Recoverable(ret) /\ ret'.executed # << >>) =>
              ret'.executed[1][1] = LastFetched(ret)[1] + INSTRUCTION_SIZE ]_vars

\* 8008 at 0x200 has failed and the next call has begun with the word after it
C36_Witness ==
    /\ ret.op = "tick" /\ ret.kind = "Ok"
    /\ ret.executed[1] = <<514, 0>>
    /\ backend.memory[512] = 128 /\ backend.memory[513] = 8

=============================================================================
